---- MODULE Spec2Model ----
(***************************************************************************)
(* A model of assuan_rs: the Assuan line protocol's request codec          *)
(* (src/src/request.rs), response codec and rendering                      *)
(* (src/src/response.rs) and the per-connection dispatcher server::start   *)
(* (src/src/server.rs).  Spec runs the dispatcher on an input stream;      *)
(* CodecSpec calls the two parsers on a line by themselves.                *)
(*                                                                         *)
(* Text is modelled as a sequence of characters, each character a          *)
(* one-character string.  "U+00E9" stands for one non-ASCII character      *)
(* whose UTF-8 encoding takes two bytes; Rust's str::len and the slice     *)
(* [..1] count bytes, so such a character matters to both.                 *)
(***************************************************************************)
EXTENDS Integers, Sequences, FiniteSets, TLC

\* ------------------------------------------------------------------ bounds

\* The longest input stream the model feeds to the dispatcher.
MaxInput == 2

\* server.rs line 76: `if line.len() > 1000`.
MaxLineLen == 1000

\* The longest free-form text that follows a line's first word at the codecs.
MaxTail == 3

\* The longest run of whitespace on either side of an option's `=`.
MaxWs == 2

\* ------------------------------------------------------------------ text

\* Characters whose UTF-8 encoding is longer than one byte (here: two).
MultiByte == {"U+00E9"}

\* char::is_whitespace, restricted to the model's alphabet.
IsWhitespace(c) == c \in {" ", "\t"}

\* str::len: the length in bytes.
StrLen(s) == Len(s) + Cardinality({i \in DOMAIN s : s[i] \in MultiByte})

\* str::trim_start
TrimStart(s) ==
    IF \A i \in DOMAIN s : IsWhitespace(s[i]) THEN <<>>
    ELSE LET f == CHOOSE i \in DOMAIN s :
                     /\ ~IsWhitespace(s[i])
                     /\ \A j \in 1..(i - 1) : IsWhitespace(s[j])
         IN  SubSeq(s, f, Len(s))

\* str::trim_end
TrimEnd(s) ==
    IF \A i \in DOMAIN s : IsWhitespace(s[i]) THEN <<>>
    ELSE LET l == CHOOSE i \in DOMAIN s :
                     /\ ~IsWhitespace(s[i])
                     /\ \A j \in (i + 1)..Len(s) : IsWhitespace(s[j])
         IN  SubSeq(s, 1, l)

\* str::trim
Trim(s) == TrimEnd(TrimStart(s))

\* Option<T>
None == [some |-> FALSE, v |-> <<>>]
Some(x) == [some |-> TRUE, v |-> x]

\* str::split_once(c): found is FALSE when c does not occur in s; otherwise
\* a is the text before the first c and b the text after it.
SplitOnce(s, c) ==
    IF \A i \in DOMAIN s : s[i] # c
    THEN [found |-> FALSE, a |-> s, b |-> <<>>]
    ELSE LET p == CHOOSE i \in DOMAIN s : s[i] = c /\ \A j \in 1..(i - 1) : s[j] # c
         IN  [found |-> TRUE, a |-> SubSeq(s, 1, p - 1), b |-> SubSeq(s, p + 1, Len(s))]

\* The byte slice s[..1] is defined when byte offset 1 is a character
\* boundary of s; it panics on the empty string and on a string whose first
\* character is longer than one byte.
CanSliceFirstByte(s) == Len(s) >= 1 /\ s[1] \notin MultiByte

\* ------------------------------------------------------------------ command vocabulary

BYE == <<"B", "Y", "E">>
RESET == <<"R", "E", "S", "E", "T">>
END == <<"E", "N", "D">>
HELP == <<"H", "E", "L", "P">>
QUIT == <<"Q", "U", "I", "T">>
OPTION == <<"O", "P", "T", "I", "O", "N">>
CANCEL == <<"C", "A", "N", "C", "E", "L">>
NOP == <<"N", "O", "P">>
OK == <<"O", "K">>
ERR == <<"E", "R", "R">>
S == <<"S">>
INQUIRE == <<"I", "N", "Q", "U", "I", "R", "E">>
D == <<"D">>
COMMENT == <<"#">>

\* Command::try_from(&str): the keyword's Command, or "Err" for a text that
\* is no keyword.  The match is exact and case-sensitive.
CommandTryFrom(k) ==
    CASE k = BYE -> "Bye"
      [] k = RESET -> "Reset"
      [] k = END -> "End"
      [] k = HELP -> "Help"
      [] k = QUIT -> "Quit"
      [] k = OPTION -> "Option"
      [] k = CANCEL -> "Cancel"
      [] k = NOP -> "Nop"
      [] k = OK -> "Ok"
      [] k = ERR -> "Err_"
      [] k = S -> "S"
      [] k = INQUIRE -> "Inquire"
      [] k = D -> "D"
      [] k = COMMENT -> "Comment"
      [] OTHER -> "Err"

\* ------------------------------------------------------------------ request codec

\* A Request value: tag names the variant, k and p hold its fields
\* (Comment(p), D(k), Option((k, p)), Unknown((k, p))).  The tag "Panic" is
\* not a Request: it records that Request::from panicked.
Req(tag, k, p) == [tag |-> tag, k |-> k, p |-> p]

\* request.rs lines 80-84: the line split at its first space.
CommandAndParameters(input) ==
    LET sp == SplitOnce(input, " ")
    IN  IF ~sp.found THEN [k |-> input, p |-> None]
        ELSE IF sp.b = <<>> THEN [k |-> Trim(sp.a), p |-> None]
        ELSE [k |-> Trim(sp.a), p |-> Some(Trim(sp.b))]

\* An OPTION arm that keeps the whitespace around name and value.
OptionFrom_Untrimmed(arg) ==
    LET eq == SplitOnce(arg, "=")
        sp == SplitOnce(arg, " ")
    IN  IF eq.found THEN Req("Option", eq.a, Some(eq.b))
        ELSE IF sp.found THEN Req("Option", sp.a, Some(sp.b))
        ELSE Req("Option", arg, None)

\* request.rs lines 105-111: the argument of OPTION.
OptionFrom(arg) ==
    LET eq == SplitOnce(arg, "=")
        sp == SplitOnce(arg, " ")
    IN  IF eq.found THEN Req("Option", Trim(eq.a), Some(Trim(eq.b)))
        ELSE IF sp.found THEN Req("Option", Trim(sp.a), Some(Trim(sp.b)))
        ELSE Req("Option", Trim(arg), None)

\* request.rs lines 78-120: impl From<&str> for Request.
RequestFrom(input) ==
    LET cp == CommandAndParameters(input)
        command == CommandTryFrom(cp.k)
    IN  IF ~CanSliceFirstByte(cp.k) THEN Req("Panic", <<>>, None)
        ELSE IF <<cp.k[1]>> = COMMENT
        THEN IF ~CanSliceFirstByte(input) THEN Req("Panic", <<>>, None)
             ELSE LET t == Trim(Tail(input))
                  IN  IF t = <<>> THEN Req("Comment", <<>>, None)
                      ELSE Req("Comment", <<>>, Some(t))
        ELSE IF command = "Err" THEN Req("Unknown", cp.k, cp.p)
        ELSE CASE command = "Bye" -> Req("Bye", <<>>, None)
               [] command = "Reset" -> Req("Reset", <<>>, None)
               [] command = "End" -> Req("End", <<>>, None)
               [] command = "Help" -> Req("Help", <<>>, None)
               [] command = "Quit" -> Req("Quit", <<>>, None)
               [] command = "Option" /\ cp.p.some -> OptionFrom(cp.p.v)
               [] command = "Cancel" -> Req("Cancel", <<>>, None)
               [] command = "Nop" -> Req("Nop", <<>>, None)
               [] command = "D" /\ cp.p.some -> Req("D", cp.p.v, None)
               [] OTHER -> Req("Unknown", cp.k, cp.p)

\* ------------------------------------------------------------------ error taxonomy

\* ResponseErr: Gpg(GpgErrorCode), the variant given by its name, or
\* Custom(errors::Custom), carrying a number.
Gpg(name) == [kind |-> "Gpg", name |-> name, code |-> 0]
CustomCode(code) == [kind |-> "Custom", name |-> "", code |-> code]
NoErr == [kind |-> "None", name |-> "", code |-> 0]

\* The numeric value of a GpgErrorCode variant (libgpg-error's code space),
\* for the variants the dispatcher and the tests name.
GpgErrorCodeNumber(name) ==
    CASE name = "Unexpected" -> 38
      [] name = "TooLarge" -> 67
      [] name = "UnknownErrno" -> 16382
      [] name = "Eof" -> 16383

Digits == <<"0", "1", "2", "3", "4", "5", "6", "7", "8", "9">>

\* The decimal text of a natural number.
RECURSIVE DecStr(_)
DecStr(n) == IF n < 10 THEN <<Digits[n + 1]>>
             ELSE DecStr(n \div 10) \o <<Digits[(n % 10) + 1]>>

\* impl Display for ResponseErr: the code's numeric text.
ResponseErrDisplay(e) ==
    IF e.kind = "Gpg" THEN DecStr(GpgErrorCodeNumber(e.name)) ELSE DecStr(e.code)

\* ------------------------------------------------------------------ response rendering

\* A Response value: Ok(p), Err((e, p)), S((k, v)), D(v), Inquire((k, v)),
\* Comment(p), Custom((k, p)).
Resp(tag, k, v, p, e) == [tag |-> tag, k |-> k, v |-> v, p |-> p, e |-> e]
RespOk(p) == Resp("Ok", <<>>, <<>>, p, NoErr)
RespErr(e, p) == Resp("Err", <<>>, <<>>, p, e)
RespS(k, v) == Resp("S", k, v, None, NoErr)
RespD(v) == Resp("D", <<>>, v, None, NoErr)
RespInquire(k, v) == Resp("Inquire", k, v, None, NoErr)
RespComment(p) == Resp("Comment", <<>>, <<>>, p, NoErr)
RespCustom(k, p) == Resp("Custom", k, <<>>, p, NoErr)

SP == <<" ">>

\* response.rs lines 53-74: impl fmt::Display for Response.
ResponseDisplay(r) ==
    CASE r.tag = "D" -> D \o SP \o r.v
      [] r.tag = "S" -> S \o SP \o r.k \o SP \o r.v
      [] r.tag = "Inquire" -> INQUIRE \o SP \o r.k \o SP \o r.v
      [] r.tag = "Comment" -> IF r.p.some THEN COMMENT \o SP \o r.p.v ELSE COMMENT
      [] r.tag = "Ok" -> IF r.p.some THEN OK \o SP \o r.p.v ELSE OK
      [] r.tag = "Err" -> IF r.p.some
                          THEN ERR \o SP \o ResponseErrDisplay(r.e) \o SP \o r.p.v
                          ELSE ERR \o SP \o ResponseErrDisplay(r.e)
      [] r.tag = "Custom" -> IF r.p.some THEN r.k \o SP \o r.p.v ELSE r.k

\* ------------------------------------------------------------------ request rendering

\* A Request::fmt that ends a bare keyword with a space.
RequestDisplay_TrailingSpace(r) ==
    CASE r.tag = "Bye" -> BYE \o SP
      [] r.tag = "Reset" -> RESET \o SP
      [] r.tag = "End" -> END \o SP
      [] r.tag = "Help" -> HELP \o SP
      [] r.tag = "Quit" -> QUIT \o SP
      [] r.tag = "Cancel" -> CANCEL \o SP
      [] r.tag = "Nop" -> NOP \o SP
      [] r.tag = "D" -> D \o SP \o r.k
      [] r.tag = "Comment" -> IF r.p.some THEN COMMENT \o SP \o r.p.v ELSE COMMENT
      [] r.tag = "Option" -> IF r.p.some THEN OPTION \o SP \o r.k \o <<"=">> \o r.p.v
                             ELSE OPTION \o SP \o r.k
      [] r.tag = "Unknown" -> IF r.p.some THEN r.k \o SP \o r.p.v ELSE r.k

\* request.rs lines 53-76: impl fmt::Display for Request.
RequestDisplay(r) ==
    CASE r.tag = "Bye" -> BYE
      [] r.tag = "Reset" -> RESET
      [] r.tag = "End" -> END
      [] r.tag = "Help" -> HELP
      [] r.tag = "Quit" -> QUIT
      [] r.tag = "Cancel" -> CANCEL
      [] r.tag = "Nop" -> NOP
      [] r.tag = "D" -> D \o SP \o r.k
      [] r.tag = "Comment" -> IF r.p.some THEN COMMENT \o SP \o r.p.v ELSE COMMENT
      [] r.tag = "Option" -> IF r.p.some THEN OPTION \o SP \o r.k \o <<"=">> \o r.p.v
                             ELSE OPTION \o SP \o r.k
      [] r.tag = "Unknown" -> IF r.p.some THEN r.k \o SP \o r.p.v ELSE r.k

\* ------------------------------------------------------------------ error decoding

IsDigit(c) == c \in {"0", "1", "2", "3", "4", "5", "6", "7", "8", "9"}

\* The token is a well-formed unsigned integer: decimal digits, at least one.
IsNumeric(tok) == tok # <<>> /\ \A i \in DOMAIN tok : IsDigit(tok[i])

DigitVal(c) == CHOOSE d \in 0..9 : Digits[d + 1] = c

\* The value of a numeric token.
RECURSIVE DecVal(_)
DecVal(tok) == IF tok = <<>> THEN 0
               ELSE 10 * DecVal(SubSeq(tok, 1, Len(tok) - 1)) + DigitVal(tok[Len(tok)])

\* The well-known codes the model knows by name (see GpgErrorCodeNumber).
KnownCodeNames == {"Unexpected", "TooLarge", "UnknownErrno", "Eof"}

\* The result of a try_from: Ok(e) or Err.
TryOk(e) == [ok |-> TRUE, e |-> e]
TryErr == [ok |-> FALSE, e |-> NoErr]

\* errors::GpgErrorCode::try_from(&str): the well-known code whose number
\* the token spells, or Err.
GpgErrorCodeTryFrom(tok) ==
    IF IsNumeric(tok) /\ \E n \in KnownCodeNames : GpgErrorCodeNumber(n) = DecVal(tok)
    THEN TryOk(Gpg(CHOOSE n \in KnownCodeNames : GpgErrorCodeNumber(n) = DecVal(tok)))
    ELSE TryErr

\* errors::Custom::try_from(&str): the number the token spells, or Err.
CustomTryFrom(tok) ==
    IF IsNumeric(tok) THEN TryOk(CustomCode(DecVal(tok))) ELSE TryErr

\* ------------------------------------------------------------------ response parsing

\* response.rs lines 78-82: the line split at its first space.
ResponseCommandAndParameters(input) ==
    LET sp == SplitOnce(input, " ")
    IN  IF ~sp.found THEN [k |-> input, p |-> None]
        ELSE IF sp.b = <<>> THEN [k |-> Trim(sp.a), p |-> None]
        ELSE [k |-> Trim(sp.a), p |-> Some(Trim(sp.b))]

\* An ERR arm that gives up on a token that is no number.
ErrFrom_NonNumericIsCustom(p) ==
    LET sp == SplitOnce(p, " ")
        e == IF sp.found THEN sp.a ELSE p
        d == IF sp.found /\ sp.b # <<>> THEN Some(sp.b) ELSE None
    IN  IF GpgErrorCodeTryFrom(e).ok THEN RespErr(GpgErrorCodeTryFrom(e).e, d)
        ELSE IF CustomTryFrom(e).ok THEN RespErr(CustomTryFrom(e).e, d)
        ELSE RespCustom(ERR, Some(p))

\* An ERR arm that keeps the code only.
ErrFrom_DropsDescription(p) ==
    LET sp == SplitOnce(p, " ")
        e == IF sp.found THEN sp.a ELSE p
    IN  IF GpgErrorCodeTryFrom(e).ok THEN RespErr(GpgErrorCodeTryFrom(e).e, None)
        ELSE IF CustomTryFrom(e).ok THEN RespErr(CustomTryFrom(e).e, None)
        ELSE RespErr(Gpg("UnknownErrno"), None)

\* response.rs lines 100-118: the remainder of an ERR line.
ErrFrom(p) ==
    LET sp == SplitOnce(p, " ")
        e == IF sp.found THEN sp.a ELSE p
        d == IF sp.found /\ sp.b # <<>> THEN Some(sp.b) ELSE None
    IN  IF GpgErrorCodeTryFrom(e).ok THEN RespErr(GpgErrorCodeTryFrom(e).e, d)
        ELSE IF CustomTryFrom(e).ok THEN RespErr(CustomTryFrom(e).e, d)
        ELSE RespErr(Gpg("UnknownErrno"), d)

\* response.rs lines 120-124: the remainder of an INQUIRE line.
InquireFrom(p) ==
    LET sp == SplitOnce(p, " ")
    IN  IF ~sp.found THEN RespCustom(INQUIRE, Some(p))
        ELSE IF sp.b = <<>> THEN RespCustom(INQUIRE, Some(p))
        ELSE RespInquire(sp.a, sp.b)

\* An S arm that accepts a keyword without a value.
StatusFrom_SingleToken(p) ==
    LET sp == SplitOnce(p, " ")
    IN  IF ~sp.found THEN RespS(p, <<>>)
        ELSE IF sp.b = <<>> THEN RespCustom(S, Some(p))
        ELSE RespS(sp.a, sp.b)

\* response.rs lines 126-130: the remainder of an S line.
StatusFrom(p) ==
    LET sp == SplitOnce(p, " ")
    IN  IF ~sp.found THEN RespCustom(S, Some(p))
        ELSE IF sp.b = <<>> THEN RespCustom(S, Some(p))
        ELSE RespS(sp.a, sp.b)

\* A Response::from that takes every leading `#` for the marker.
RECURSIVE StripMarkers(_)
StripMarkers(s) == IF s # <<>> /\ <<Head(s)>> = COMMENT THEN StripMarkers(Tail(s)) ELSE s

ResponseFrom_AllMarkers(input) ==
    LET cp == ResponseCommandAndParameters(input)
        command == CommandTryFrom(cp.k)
    IN  IF ~CanSliceFirstByte(cp.k) THEN Resp("Panic", <<>>, <<>>, None, NoErr)
        ELSE IF <<cp.k[1]>> = COMMENT
        THEN IF ~CanSliceFirstByte(input) THEN Resp("Panic", <<>>, <<>>, None, NoErr)
             ELSE LET t == Trim(StripMarkers(input))
                  IN  IF t = <<>> THEN RespComment(None) ELSE RespComment(Some(t))
        ELSE IF command = "Err" THEN RespCustom(cp.k, cp.p)
        ELSE CASE command = "Ok" -> RespOk(cp.p)
               [] command = "D" /\ cp.p.some -> RespD(cp.p.v)
               [] command = "Err_" /\ cp.p.some -> ErrFrom(cp.p.v)
               [] command = "Inquire" /\ cp.p.some -> InquireFrom(cp.p.v)
               [] command = "S" /\ cp.p.some -> StatusFrom(cp.p.v)
               [] OTHER -> RespCustom(cp.k, cp.p)

\* response.rs lines 76-135: impl From<&str> for Response.  The tag "Panic"
\* is not a Response: it records that Response::from panicked.
ResponseFrom(input) ==
    LET cp == ResponseCommandAndParameters(input)
        command == CommandTryFrom(cp.k)
    IN  IF ~CanSliceFirstByte(cp.k) THEN Resp("Panic", <<>>, <<>>, None, NoErr)
        ELSE IF <<cp.k[1]>> = COMMENT
        THEN IF ~CanSliceFirstByte(input) THEN Resp("Panic", <<>>, <<>>, None, NoErr)
             ELSE LET t == Trim(Tail(input))
                  IN  IF t = <<>> THEN RespComment(None) ELSE RespComment(Some(t))
        ELSE IF command = "Err" THEN RespCustom(cp.k, cp.p)
        ELSE CASE command = "Ok" -> RespOk(cp.p)
               [] command = "D" /\ cp.p.some -> RespD(cp.p.v)
               [] command = "Err_" /\ cp.p.some -> ErrFrom(cp.p.v)
               [] command = "Inquire" /\ cp.p.some -> InquireFrom(cp.p.v)
               [] command = "S" /\ cp.p.some -> StatusFrom(cp.p.v)
               [] OTHER -> RespCustom(cp.k, cp.p)

\* ------------------------------------------------------------------ the environment

\* n copies of the letter x.
Pad(n) == [i \in 1..n |-> "x"]

LineItem(text) == [kind |-> "Line", text |-> text]
ReadErrItem(text) == [kind |-> "ReadErr", text |-> text]

\* The stream items the model draws the input from: Ok(line) or Err(e),
\* the latter with e.to_string() as its text.
Items == <<
    ReadErrItem(<<"e", "o", "f">>),
    LineItem(<<" ", "\t">>),
    LineItem(NOP),
    LineItem(<<" ">> \o NOP \o <<" ", "\t">>),
    LineItem(BYE),
    LineItem(QUIT),
    LineItem(RESET),
    LineItem(HELP),
    LineItem(OPTION \o SP \o <<"a", "=", "b">>),
    LineItem(OPTION \o SP \o <<"a">>),
    LineItem(OPTION),
    LineItem(<<"F", "O", "O">> \o SP \o <<"x", " ", "y">>),
    LineItem(OK),
    LineItem(END),
    LineItem(D \o SP \o <<"x">>),
    LineItem(CANCEL),
    LineItem(COMMENT \o SP \o <<"c">>),
    LineItem(<<"U+00E9">>),
    LineItem(NOP \o SP \o Pad(MaxLineLen - 4)),
    LineItem(NOP \o SP \o Pad(MaxLineLen - 3)),
    LineItem(NOP \o SP \o Pad(MaxLineLen - 5) \o <<"U+00E9">>),
    LineItem(D),
    LineItem(S \o SP \o <<"k", " ", "v">>)
>>

ItemIds == DOMAIN Items

\* All sequences over A of length at most n.
SeqsUpTo(A, n) == UNION {[1..m -> A] : m \in 0..n}

\* What a Handler may answer.
HandlerResponses == {
    RespOk(None),
    RespS(<<"k">>, <<"v">>),
    RespErr(Gpg("Eof"), Some(<<"e", "n", "d">>))
}

HandlerErrors == {
    [e |-> Gpg("Eof"), d |-> None],
    [e |-> CustomCode(32909), d |-> Some(<<"n", "o">>)]
}

\* HandlerResult = Result<Option<Response>, (ResponseErr, Option<String>)>
\* and OptionResult = Result<Response, (ResponseErr, Option<String>)>.
HRes(tag, resp, e, d) == [tag |-> tag, resp |-> resp, e |-> e, d |-> d]
NoRes == HRes("Unit", RespOk(None), NoErr, None)

HandlerResults ==
    {HRes("OkNone", RespOk(None), NoErr, None)}
    \cup {HRes("OkSome", r, NoErr, None) : r \in HandlerResponses}
    \cup {HRes("Err", RespOk(None), x.e, x.d) : x \in HandlerErrors}

OptionResults ==
    {HRes("Ok", r, NoErr, None) : r \in HandlerResponses}
    \cup {HRes("Err", RespOk(None), x.e, x.d) : x \in HandlerErrors}

\* HelpResult = Option<Vec<String>>
HelpResults == {
    None,
    Some(<<>>),
    Some(<< <<"F", "O", "O">>, <<"B", "A", "R">> >>)
}

\* One call of a Handler operation: its arguments and what it returned.
Call(op, k, p, res, list) == [op |-> op, k |-> k, p |-> p, res |-> res, list |-> list]

\* ------------------------------------------------------------------ state

\* The codecs at work on one line, apart from any session.
VARIABLES
    cline,     \* the line handed to Request::from and Response::from
    crequest,  \* what Request::from(cline) returned, NoReq before the call
    cresponse, \* what Response::from(cline) returned, NoResp before the call
    crendered, \* Some(the text crequest renders to), None before it is rendered
    creparsed  \* what Request::from(that text) returned, NoReq before the call

codec == <<cline, crequest, cresponse, crendered, creparsed>>

NoReq == Req("NoReq", <<>>, None)

NoResp == Resp("NoResp", <<>>, <<>>, None, NoErr)

\* No line is at the codecs.
CodecIdle ==
    /\ cline = <<>>
    /\ crequest = NoReq
    /\ cresponse = NoResp
    /\ crendered = None
    /\ creparsed = NoReq

\* ------------------------------------------------------------------ the dispatcher

VARIABLES
    pc,        \* where start() stands: "greet", "next", "dispatch", "option",
               \* "handle", "help", "write" or "done"
    outcome,   \* "none" while running; "Ok" for Ok(()), "WriteErr" for
               \* Err(ServerError::Write), "Panic" for a panic
    exit,      \* the statement start() ended at: "none" while running, else
               \* "exhausted", "quit", "handler", "write", "unwrap", "parse", "todo"
    input,     \* the items the stream r has yet to yield
    consumed,  \* the items r.next() has yielded so far, in order
    req,       \* the Request parsed from the current line
    pending,   \* the Response whose writeln! is the value of `wr`
    helpq,     \* the help lines the `for s in v` loop has yet to write
    attempts,  \* the writes made since the last r.next(): the Response, its
               \* text, the write's result, and whether that result is the
               \* one start() checks (`wr`)
    hcalls,    \* the Handler calls made since the last r.next()
    output,    \* the lines written to w
    wfail      \* whether any write to w has failed

dispatcher ==
    <<pc, outcome, exit, input, consumed, req, pending, helpq, attempts, hcalls, output, wfail>>

vars == <<dispatcher, codec>>

Init ==
    /\ CodecIdle
    /\ pc = "greet"
    /\ outcome = "none"
    /\ exit = "none"
    /\ input \in SeqsUpTo(ItemIds, MaxInput)
    /\ consumed = <<>>
    /\ req = NoReq
    /\ pending = RespOk(None)
    /\ helpq = <<>>
    /\ attempts = <<>>
    /\ hcalls = <<>>
    /\ output = <<>>
    /\ wfail = FALSE

\* writeln!(w, "{}", r).await: the rendered line reaches the output when the
\* write succeeds.
Writeln(r, ok, final) ==
    /\ attempts' = Append(attempts, [resp |-> r, line |-> ResponseDisplay(r),
                                      ok |-> ok, final |-> final])
    /\ output' = IF ok THEN Append(output, ResponseDisplay(r)) ELSE output
    /\ wfail' = (wfail \/ ~ok)

\* return / break / panic: start() is over.
Finish(result, at) ==
    /\ pc' = "done"
    /\ outcome' = result
    /\ exit' = at

\* server.rs line 48.
Greeting == RespOk(Some(<<"P", "l", "e", "a", "s", "e", "d", " ", "t", "o", " ",
                          "m", "e", "e", "t", " ", "y", "o", "u">>))

\* A dispatcher that enters the loop without greeting.
GreetOk_NoGreeting ==
    /\ pc = "greet"
    /\ pc' = "next"
    /\ UNCHANGED <<outcome, exit, input, consumed, req, pending, helpq, attempts, hcalls, output, wfail>>
    /\ UNCHANGED codec

\* server.rs lines 45-51, the write succeeds.
GreetOk ==
    /\ pc = "greet"
    /\ Writeln(Greeting, TRUE, TRUE)
    /\ pc' = "next"
    /\ UNCHANGED <<outcome, exit, input, consumed, req, pending, helpq, hcalls>>
    /\ UNCHANGED codec

\* server.rs lines 45-51, the write fails: unwrap() panics.
GreetFail ==
    /\ pc = "greet"
    /\ Writeln(Greeting, FALSE, TRUE)
    /\ Finish("Panic", "unwrap")
    /\ UNCHANGED <<input, consumed, req, pending, helpq, hcalls>>
    /\ UNCHANGED codec

\* A loop that takes the next item while the answer to this one is unwritten.
ReadNext_Pipelined ==
    /\ pc \in {"next", "write"}
    /\ input # <<>>
    /\ consumed' = Append(consumed, Head(input))
    /\ input' = Tail(input)
    /\ req' = NoReq
    /\ attempts' = <<>>
    /\ hcalls' = <<>>
    /\ pc' = "dispatch"
    /\ UNCHANGED <<outcome, exit, pending, helpq, output, wfail>>
    /\ UNCHANGED codec

\* server.rs line 53: r.next() yields an item.
ReadNext ==
    /\ pc = "next"
    /\ input # <<>>
    /\ consumed' = Append(consumed, Head(input))
    /\ input' = Tail(input)
    /\ req' = NoReq
    /\ attempts' = <<>>
    /\ hcalls' = <<>>
    /\ pc' = "dispatch"
    /\ UNCHANGED <<outcome, exit, pending, helpq, output, wfail>>
    /\ UNCHANGED codec

\* server.rs lines 53 and 151: r.next() yields None, the loop ends.
StreamEnd ==
    /\ pc = "next"
    /\ input = <<>>
    /\ Finish("Ok", "exhausted")
    /\ UNCHANGED <<input, consumed, req, pending, helpq, attempts, hcalls, output, wfail>>
    /\ UNCHANGED codec

\* The item being processed.
Cur == Items[consumed[Len(consumed)]]

\* server.rs line 71: `line.trim()`, for each item of the stream (a table, so
\* that a line is trimmed once and not in every guard).
TrimmedLine == [i \in ItemIds |-> Trim(Items[i].text)]

\* server.rs line 90: `Request::from(line)`, for each item of the stream.
RequestOf == [i \in ItemIds |-> RequestFrom(TrimmedLine[i])]

CurLine == TrimmedLine[consumed[Len(consumed)]]

CurRequest == RequestOf[consumed[Len(consumed)]]

\* A bound that already rejects a line of exactly the maximum length.
TooLargeLine_Inclusive == StrLen(CurLine) >= MaxLineLen

\* server.rs line 76: `line.len() > 1000`.
TooLargeLine == StrLen(CurLine) > MaxLineLen

\* The item is a line that reaches Request::from (server.rs line 90).
Parsed ==
    /\ pc = "dispatch"
    /\ Cur.kind = "Line"
    /\ CurLine # <<>>
    /\ ~TooLargeLine

\* Leave for the write of `wr` with response r.
ToWrite(r) ==
    /\ pending' = r
    /\ pc' = "write"
    /\ UNCHANGED <<outcome, exit, input, consumed, helpq, attempts, output, wfail>>

\* `continue`: back to r.next() with nothing written.
Continue ==
    /\ pc' = "next"
    /\ UNCHANGED <<outcome, exit, input, consumed, pending, helpq, attempts, hcalls, output, wfail>>

\* A read error reported without its description.
DispatchReadErr_NoDescription ==
    /\ pc = "dispatch"
    /\ Cur.kind = "ReadErr"
    /\ ToWrite(RespErr(Gpg("Unexpected"), None))
    /\ UNCHANGED <<req, hcalls>>
    /\ UNCHANGED codec

\* server.rs lines 55-64.
DispatchReadErr ==
    /\ pc = "dispatch"
    /\ Cur.kind = "ReadErr"
    /\ ToWrite(RespErr(Gpg("Unexpected"), Some(Cur.text)))
    /\ UNCHANGED <<req, hcalls>>
    /\ UNCHANGED codec

\* server.rs lines 71-74.
DispatchBlank ==
    /\ pc = "dispatch"
    /\ Cur.kind = "Line"
    /\ CurLine = <<>>
    /\ Continue
    /\ UNCHANGED req
    /\ UNCHANGED codec

\* server.rs lines 76-82.
DispatchTooLarge ==
    /\ pc = "dispatch"
    /\ Cur.kind = "Line"
    /\ CurLine # <<>>
    /\ TooLargeLine
    /\ ToWrite(RespErr(Gpg("TooLarge"), None))
    /\ UNCHANGED <<req, hcalls>>
    /\ UNCHANGED codec

\* server.rs line 90: Request::from panics.
DispatchParsePanic ==
    /\ Parsed
    /\ CurRequest.tag = "Panic"
    /\ req' = CurRequest
    /\ Finish("Panic", "parse")
    /\ UNCHANGED <<input, consumed, pending, helpq, attempts, hcalls, output, wfail>>
    /\ UNCHANGED codec

\* A comment that is answered with `OK`.
DispatchComment_Acknowledged ==
    /\ Parsed
    /\ CurRequest.tag = "Comment"
    /\ req' = CurRequest
    /\ ToWrite(RespOk(None))
    /\ UNCHANGED hcalls
    /\ UNCHANGED codec

\* server.rs line 92.
DispatchComment ==
    /\ Parsed
    /\ CurRequest.tag = "Comment"
    /\ req' = CurRequest
    /\ Continue
    /\ UNCHANGED codec

\* A RESET acknowledged without telling the Handler.
DispatchReset_NoNotification ==
    /\ Parsed
    /\ CurRequest.tag = "Reset"
    /\ req' = CurRequest
    /\ ToWrite(RespOk(None))
    /\ UNCHANGED hcalls
    /\ UNCHANGED codec

\* server.rs lines 94-97.
DispatchReset ==
    /\ Parsed
    /\ CurRequest.tag = "Reset"
    /\ req' = CurRequest
    /\ hcalls' = Append(hcalls, Call("reset", <<>>, None, NoRes, None))
    /\ ToWrite(RespOk(None))
    /\ UNCHANGED codec

\* BYE closing the session instead of being acknowledged.
DispatchByeNop_ByeCloses ==
    /\ Parsed
    /\ CurRequest.tag \in {"Bye", "Nop"}
    /\ req' = CurRequest
    /\ IF CurRequest.tag = "Bye"
       THEN /\ Finish("Ok", "quit")
            /\ UNCHANGED <<input, consumed, pending, helpq, attempts, output, wfail>>
       ELSE ToWrite(RespOk(None))
    /\ UNCHANGED hcalls
    /\ UNCHANGED codec

\* server.rs lines 99-100.
DispatchByeNop ==
    /\ Parsed
    /\ CurRequest.tag \in {"Bye", "Nop"}
    /\ req' = CurRequest
    /\ ToWrite(RespOk(None))
    /\ UNCHANGED hcalls
    /\ UNCHANGED codec

\* server.rs lines 102 and 107-108: handler.option(..) is called.
DispatchOption ==
    /\ Parsed
    /\ CurRequest.tag = "Option"
    /\ req' = CurRequest
    /\ pc' = "option"
    /\ UNCHANGED <<outcome, exit, input, consumed, pending, helpq, attempts, hcalls, output, wfail>>
    /\ UNCHANGED codec

\* An option negotiation whose success is always answered with a bare OK.
OptionReturn_AlwaysOk ==
    /\ pc = "option"
    /\ \E r \in OptionResults :
          /\ hcalls' = Append(hcalls, Call("option", req.k, req.p, r, None))
          /\ ToWrite(IF r.tag = "Ok" THEN RespOk(None) ELSE RespErr(r.e, r.d))
    /\ UNCHANGED req
    /\ UNCHANGED codec

\* server.rs lines 102-112: handler.option(..).await returns.
OptionReturn ==
    /\ pc = "option"
    /\ \E r \in OptionResults :
          /\ hcalls' = Append(hcalls, Call("option", req.k, req.p, r, None))
          /\ ToWrite(IF r.tag = "Ok" THEN r.resp ELSE RespErr(r.e, r.d))
    /\ UNCHANGED req
    /\ UNCHANGED codec

\* A custom command handed to handler.option(..).
DispatchUnknown_ViaOption ==
    /\ Parsed
    /\ CurRequest.tag = "Unknown"
    /\ req' = CurRequest
    /\ pc' = "option"
    /\ UNCHANGED <<outcome, exit, input, consumed, pending, helpq, attempts, hcalls, output, wfail>>
    /\ UNCHANGED codec

\* server.rs lines 114 and 120-121: handler.handle(..) is called.
DispatchUnknown ==
    /\ Parsed
    /\ CurRequest.tag = "Unknown"
    /\ req' = CurRequest
    /\ pc' = "handle"
    /\ UNCHANGED <<outcome, exit, input, consumed, pending, helpq, attempts, hcalls, output, wfail>>
    /\ UNCHANGED codec

\* A custom command whose failure is reported without its description.
HandleReturn_DropsDescription ==
    /\ pc = "handle"
    /\ \E r \in HandlerResults :
          /\ hcalls' = Append(hcalls, Call("handle", req.k, req.p, r, None))
          /\ IF r.tag = "OkNone"
             THEN /\ Finish("Ok", "handler")
                  /\ UNCHANGED <<input, consumed, pending, helpq, attempts, output, wfail>>
             ELSE ToWrite(IF r.tag = "OkSome" THEN r.resp ELSE RespErr(r.e, None))
    /\ UNCHANGED req
    /\ UNCHANGED codec

\* server.rs lines 114-126: handler.handle(..).await returns.
HandleReturn ==
    /\ pc = "handle"
    /\ \E r \in HandlerResults :
          /\ hcalls' = Append(hcalls, Call("handle", req.k, req.p, r, None))
          /\ IF r.tag = "OkNone"
             THEN /\ Finish("Ok", "handler")
                  /\ UNCHANGED <<input, consumed, pending, helpq, attempts, output, wfail>>
             ELSE ToWrite(IF r.tag = "OkSome" THEN r.resp ELSE RespErr(r.e, r.d))
    /\ UNCHANGED req
    /\ UNCHANGED codec

\* server.rs lines 127, 128 and 137: todo!() panics.
DispatchTodo ==
    /\ Parsed
    /\ CurRequest.tag \in {"D", "End", "Cancel"}
    /\ req' = CurRequest
    /\ Finish("Panic", "todo")
    /\ UNCHANGED <<input, consumed, pending, helpq, attempts, hcalls, output, wfail>>
    /\ UNCHANGED codec

\* server.rs lines 129-130: handler.help() is called and returns.
DispatchHelp ==
    /\ Parsed
    /\ CurRequest.tag = "Help"
    /\ req' = CurRequest
    /\ \E h \in HelpResults :
          /\ hcalls' = Append(hcalls, Call("help", <<>>, None, NoRes, h))
          /\ helpq' = h.v
          /\ pending' = RespOk(None)
          /\ pc' = IF h.v = <<>> THEN "write" ELSE "help"
    /\ UNCHANGED <<outcome, exit, input, consumed, attempts, output, wfail>>
    /\ UNCHANGED codec

\* A help loop that walks the listing from its end.
HelpWrite_Reversed(ok) ==
    /\ pc = "help"
    /\ Writeln(RespComment(Some(helpq[Len(helpq)])), ok, FALSE)
    /\ helpq' = SubSeq(helpq, 1, Len(helpq) - 1)
    /\ pc' = IF Len(helpq) = 1 THEN "write" ELSE "help"
    /\ UNCHANGED <<outcome, exit, input, consumed, req, pending, hcalls>>
    /\ UNCHANGED codec

\* A help loop that gives up at the first comment it cannot write.
HelpWrite_FailureIsFatal(ok) ==
    /\ pc = "help"
    /\ Writeln(RespComment(Some(Head(helpq))), ok, FALSE)
    /\ helpq' = Tail(helpq)
    /\ IF ok
       THEN /\ pc' = IF Tail(helpq) = <<>> THEN "write" ELSE "help"
            /\ UNCHANGED <<outcome, exit>>
       ELSE Finish("WriteErr", "write")
    /\ UNCHANGED <<input, consumed, req, pending, hcalls>>
    /\ UNCHANGED codec

\* server.rs lines 131-133: one round of the loop; the write's result is dropped.
HelpWrite(ok) ==
    /\ pc = "help"
    /\ Writeln(RespComment(Some(Head(helpq))), ok, FALSE)
    /\ helpq' = Tail(helpq)
    /\ pc' = IF Tail(helpq) = <<>> THEN "write" ELSE "help"
    /\ UNCHANGED <<outcome, exit, input, consumed, req, pending, hcalls>>
    /\ UNCHANGED codec

HelpWriteOk == HelpWrite(TRUE)

HelpWriteFail == HelpWrite(FALSE)

\* QUIT acknowledged like NOP instead of ending the loop.
DispatchQuit_Acknowledged ==
    /\ Parsed
    /\ CurRequest.tag = "Quit"
    /\ req' = CurRequest
    /\ ToWrite(RespOk(None))
    /\ UNCHANGED hcalls
    /\ UNCHANGED codec

\* server.rs lines 139-141 and 151.
DispatchQuit ==
    /\ Parsed
    /\ CurRequest.tag = "Quit"
    /\ req' = CurRequest
    /\ Finish("Ok", "quit")
    /\ UNCHANGED <<input, consumed, pending, helpq, attempts, hcalls, output, wfail>>
    /\ UNCHANGED codec

\* The write of `wr` succeeds (server.rs lines 66, 83, 144): the loop goes on.
WriteOk ==
    /\ pc = "write"
    /\ Writeln(pending, TRUE, TRUE)
    /\ pc' = "next"
    /\ UNCHANGED <<outcome, exit, input, consumed, req, pending, helpq, hcalls>>
    /\ UNCHANGED codec

\* A failed write of `wr` that is dropped like a help line's.
WriteFail_Swallowed ==
    /\ pc = "write"
    /\ Writeln(pending, FALSE, TRUE)
    /\ pc' = "next"
    /\ UNCHANGED <<outcome, exit, input, consumed, req, pending, helpq, hcalls>>
    /\ UNCHANGED codec

\* The write of `wr` fails (server.rs lines 66-68, 83-85, 144-146).
WriteFail ==
    /\ pc = "write"
    /\ Writeln(pending, FALSE, TRUE)
    /\ Finish("WriteErr", "write")
    /\ UNCHANGED <<input, consumed, req, pending, helpq, hcalls>>
    /\ UNCHANGED codec

Next ==
    \/ GreetOk
    \/ GreetFail
    \/ ReadNext
    \/ StreamEnd
    \/ DispatchReadErr
    \/ DispatchBlank
    \/ DispatchTooLarge
    \/ DispatchParsePanic
    \/ DispatchComment
    \/ DispatchReset
    \/ DispatchByeNop
    \/ DispatchOption
    \/ OptionReturn
    \/ DispatchUnknown
    \/ HandleReturn
    \/ DispatchTodo
    \/ DispatchHelp
    \/ HelpWriteOk
    \/ HelpWriteFail
    \/ DispatchQuit
    \/ WriteOk
    \/ WriteFail

Spec == Init /\ [][Next]_vars

\* ------------------------------------------------------------------ the codecs alone

\* Every keyword of the protocol.
Keywords == {BYE, RESET, END, HELP, QUIT, OPTION, CANCEL, NOP, OK, ERR, S, INQUIRE, D, COMMENT}

\* How a line at the codecs begins: with nothing, a keyword, a word that is
\* no keyword, a keyword in lower case, or a character that is not ASCII.
LineHeads == {<<>>} \cup Keywords \cup {<<"F", "O", "O">>, <<"n", "o", "p">>, <<"U+00E9">>}

\* Free-form text after the first word.
FreeTails == SeqsUpTo({" ", "\t", "a", "b", "=", "#"}, MaxTail)

\* Option names and values: non-empty, without a space or `=`.
OptionNames == {<<"a">>, <<"n", "m">>}
OptionValues == {<<"b">>, <<"#", "v">>}

\* Runs of whitespace around an option's `=`.
WsRuns == SeqsUpTo({" ", "\t"}, MaxWs)

\* `name=value` with any whitespace around `=`.
OptionEq(n, v) == {n \o w1 \o <<"=">> \o w2 \o v : w1 \in WsRuns, w2 \in WsRuns}

\* ` name=value`, ` name value`, ` name   =   value`, ` name`.
OptionTails ==
    UNION {{<<" ">> \o x : x \in OptionEq(n, v)} \cup {<<" ">> \o n \o <<" ">> \o v, <<" ">> \o n}
           : <<n, v>> \in OptionNames \X OptionValues}

\* Error tokens: well-known codes, other integers, and texts that are no
\* integer.
NumericTokens == {<<"3", "8">>, <<"6", "7">>, <<"1", "6", "3", "8", "2">>,
                  <<"1", "6", "3", "8", "3">>, <<"3", "2", "9", "0", "9">>, <<"3", "2", "9", "1", "0">>}
OtherTokens == {<<"i", "d">>, <<"3", "x">>, <<"-", "1">>}

\* What may follow an error token.
ErrSuffixes == {<<>>, <<" ">>, <<" ", "d">>, <<" ", "d", " ", "e">>, <<" ", " ", "d">>, <<"\t", "d">>}

\* ` <token>[ description]`.
ErrTails == {<<" ">> \o tok \o suf : tok \in NumericTokens \cup OtherTokens, suf \in ErrSuffixes}

\* ` keyword value` where the value has words of its own.
FieldTails == {<<" ", "k", " ", "v", " ", "w">>, <<" ", "k", " ", " ", "v">>,
               <<" ", " ", "k", " ", "v", " ">>, <<" ", "k", "\t", "v">>}

\* The lines handed to the codecs.
CodecLines ==
    {h \o tl : h \in LineHeads, tl \in FreeTails \cup OptionTails \cup ErrTails \cup FieldTails}

\* No session runs: the codecs are called on a line by themselves.
CodecInit ==
    /\ cline \in CodecLines
    /\ crequest = NoReq
    /\ cresponse = NoResp
    /\ crendered = None
    /\ creparsed = NoReq
    /\ pc = "greet"
    /\ outcome = "none"
    /\ exit = "none"
    /\ input = <<>>
    /\ consumed = <<>>
    /\ req = NoReq
    /\ pending = RespOk(None)
    /\ helpq = <<>>
    /\ attempts = <<>>
    /\ hcalls = <<>>
    /\ output = <<>>
    /\ wfail = FALSE

\* request.rs lines 78-120: Request::from(cline).
ParseRequest ==
    /\ crequest = NoReq
    /\ crequest' = RequestFrom(cline)
    /\ UNCHANGED <<cline, cresponse, crendered, creparsed>>
    /\ UNCHANGED dispatcher

\* response.rs lines 76-135: Response::from(cline).
ParseResponse ==
    /\ cresponse = NoResp
    /\ cresponse' = ResponseFrom(cline)
    /\ UNCHANGED <<cline, crequest, crendered, creparsed>>
    /\ UNCHANGED dispatcher

\* request.rs lines 53-76: the parsed request is rendered (to_string()).
RenderRequest ==
    /\ crequest # NoReq
    /\ crequest.tag # "Panic"
    /\ crendered = None
    /\ crendered' = Some(RequestDisplay(crequest))
    /\ UNCHANGED <<cline, crequest, cresponse, creparsed>>
    /\ UNCHANGED dispatcher

\* request.rs lines 78-120: Request::from of the rendered text.
ReparseRequest ==
    /\ crendered # None
    /\ creparsed = NoReq
    /\ creparsed' = RequestFrom(crendered.v)
    /\ UNCHANGED <<cline, crequest, cresponse, crendered>>
    /\ UNCHANGED dispatcher

CodecNext ==
    \/ ParseRequest
    \/ ParseResponse
    \/ RenderRequest
    \/ ReparseRequest

CodecSpec == CodecInit /\ [][CodecNext]_vars

\* ------------------------------------------------------------------ claims

\* An item has been taken from the stream and start() is past its dispatch:
\* it is waiting for the next item, or it is over.
Settled == consumed # <<>> /\ pc \in {"next", "done"}

\* The session is still Active: the loop goes on, or it ended only because
\* the stream did.
StillActive == (pc = "next" /\ exit = "none") \/ (pc = "done" /\ exit = "exhausted")

\* Nothing happens once start() is over.
Halted == pc = "done" /\ ~ENABLED Next

\* The text `OK Pleased to meet you`.
GreetingLine == <<"O", "K", " ", "P", "l", "e", "a", "s", "e", "d", " ", "t", "o", " ",
                  "m", "e", "e", "t", " ", "y", "o", "u">>

\* C1: whatever the input, the first line on the output is
\* `OK Pleased to meet you`, and no item is taken from the input stream
\* before that line has been written.
C1_GreetingFirst ==
    /\ output # <<>> => output[1] = GreetingLine
    /\ consumed # <<>> => output # <<>>
    /\ pc \notin {"greet", "done"} => output # <<>>

\* C1 witness: two items were taken and answered after the greeting.
C1_Witness ==
    /\ Len(consumed) = 2
    /\ Len(output) >= 3
    /\ output[1] = GreetingLine

\* C2: when the write of the greeting fails, start() returns
\* Err(ServerError::Write), having read no item and called no Handler
\* operation.
C2_GreetingFailureIsWriteErr ==
    (pc = "done" /\ consumed = <<>> /\ attempts # <<>> /\ ~attempts[1].ok)
        => (outcome = "WriteErr" /\ hcalls = <<>>)

\* C3: start() ends with anything but Ok(()) only when a write to the
\* output has failed.
C3_AbnormalOnlyOnWriteFailure ==
    (pc = "done" /\ outcome # "Ok") => wfail

\* The item being processed is a line, and this is its text after trimming.
CurLineIs(text) == consumed # <<>> /\ Cur.kind = "Line" /\ CurLine = text

\* The byte length of each item's trimmed line (a table, as TrimmedLine).
TrimmedLen == [i \in ItemIds |-> StrLen(TrimmedLine[i])]

CurLen == TrimmedLen[consumed[Len(consumed)]]

\* The item being processed is a line that Request::from turns into a
\* request of this variant.
CurParsesTo(tag) ==
    /\ consumed # <<>>
    /\ Cur.kind = "Line"
    /\ CurLine # <<>>
    /\ CurLen <= MaxLineLen
    /\ RequestOf[consumed[Len(consumed)]].tag = tag

\* The texts of the writes attempted for the current item, in order.
AttemptLines == [i \in DOMAIN attempts |-> attempts[i].line]

\* `ERR <code>` and `ERR <code> <description>`.
ErrLine(e, d) ==
    <<"E", "R", "R", " ">> \o ResponseErrDisplay(e)
        \o (IF d.some THEN <<" ">> \o d.v ELSE <<>>)

\* C4: while Active, a failed write of a line's final response ends start()
\* at once with Err(ServerError::Write): it is the last write attempted, and
\* nothing is read, called or written after it.
C4_FinalWriteFailureIsFatal ==
    /\ \A i \in DOMAIN attempts :
          (consumed # <<>> /\ attempts[i].final /\ ~attempts[i].ok)
              => /\ i = Len(attempts)
                 /\ pc = "done"
                 /\ outcome = "WriteErr"
                 /\ exit = "write"
    /\ exit = "write" => Halted

\* C4 witness: the closing OK of HELP could not be written while an item
\* was still waiting in the stream.
C4_Witness ==
    /\ CurLineIs(HELP)
    /\ exit = "write"
    /\ outcome = "WriteErr"
    /\ input # <<>>
    /\ Len(attempts) = 3
    /\ attempts[1].ok /\ attempts[2].ok

\* C5: a QUIT line is answered with no line and no Handler call; start()
\* returns Ok(()) and the rest of the stream is never read.
C5_QuitClosesSilently ==
    (CurLineIs(QUIT) /\ pc # "dispatch")
        => /\ pc = "done"
           /\ outcome = "Ok"
           /\ exit = "quit"
           /\ attempts = <<>>
           /\ hcalls = <<>>
           /\ Halted

\* C5 witness: QUIT ended the session with an item left unread.
C5_Witness ==
    /\ CurLineIs(QUIT)
    /\ pc = "done"
    /\ input # <<>>
    /\ Len(output) = 1

C7_UnknownFollowsHandler ==
    (CurParsesTo("Unknown") /\ pc \notin {"dispatch", "handle"})
        => /\ Len(hcalls) = 1
           /\ hcalls[1].op = "handle"
           /\ hcalls[1].k = CommandAndParameters(CurLine).k
           /\ hcalls[1].p = CommandAndParameters(CurLine).p
           /\ LET r == hcalls[1].res
              IN  /\ r.tag = "OkNone" =>
                        (pc = "done" /\ outcome = "Ok" /\ exit = "handler" /\ attempts = <<>>)
                  /\ r.tag # "OkNone" =>
                        /\ pc \in {"write", "next", "done"}
                        /\ pc = "write" => attempts = <<>>
                        /\ Settled =>
                              /\ Len(attempts) = 1
                              /\ attempts[1].ok => StillActive
                              /\ r.tag = "OkSome" =>
                                    /\ attempts[1].resp = r.resp
                                    /\ attempts[1].line = ResponseDisplay(r.resp)
                              /\ r.tag = "Err" =>
                                    /\ attempts[1].resp = RespErr(r.e, r.d)
                                    /\ attempts[1].line = ErrLine(r.e, r.d)

\* C7 witness: `FOO x y` reached the Handler as ("FOO", Some("x y")), which
\* failed with a custom code and a description, and the session went on.
C7_Witness ==
    /\ CurLineIs(<<"F", "O", "O", " ", "x", " ", "y">>)
    /\ pc = "next"
    /\ Len(hcalls) = 1
    /\ hcalls[1].k = <<"F", "O", "O">>
    /\ hcalls[1].p = Some(<<"x", " ", "y">>)
    /\ hcalls[1].res.tag = "Err"
    /\ attempts[1].line = <<"E", "R", "R", " ", "3", "2", "9", "0", "9", " ", "n", "o">>
    /\ attempts[1].ok

\* C8: a request that parses to Option(name, value) is handed to
\* Handler.option with that name and value, once; exactly one line is
\* written, the returned response on success and an Err built from the
\* returned error and description on failure, and the session stays Active.
C8_OptionFollowsHandler ==
    (CurParsesTo("Option") /\ pc \notin {"dispatch", "option"})
        => /\ Len(hcalls) = 1
           /\ hcalls[1].op = "option"
           /\ hcalls[1].k = RequestFrom(CurLine).k
           /\ hcalls[1].p = RequestFrom(CurLine).p
           /\ pc \in {"write", "next", "done"}
           /\ pc = "write" => attempts = <<>>
           /\ Settled =>
                 /\ Len(attempts) = 1
                 /\ attempts[1].ok => StillActive
                 /\ hcalls[1].res.tag = "Ok" =>
                       /\ attempts[1].resp = hcalls[1].res.resp
                       /\ attempts[1].line = ResponseDisplay(hcalls[1].res.resp)
                 /\ hcalls[1].res.tag = "Err" =>
                       /\ attempts[1].resp = RespErr(hcalls[1].res.e, hcalls[1].res.d)
                       /\ attempts[1].line = ErrLine(hcalls[1].res.e, hcalls[1].res.d)

\* C8 witness: `OPTION a=b` reached Handler.option as ("a", Some("b")), and
\* the status response it returned was written.
C8_Witness ==
    /\ CurLineIs(<<"O", "P", "T", "I", "O", "N", " ", "a", "=", "b">>)
    /\ pc = "next"
    /\ Len(hcalls) = 1
    /\ hcalls[1].k = <<"a">>
    /\ hcalls[1].p = Some(<<"b">>)
    /\ hcalls[1].res.tag = "Ok"
    /\ attempts[1].line = <<"S", " ", "k", " ", "v">>
    /\ attempts[1].ok

\* The help listing as a sequence: empty when it is absent.
Listing(h) == IF h.some THEN h.v ELSE <<>>

\* C9: when every write succeeds, a HELP line puts on the output one
\* `# <text>` line per element of the Handler's listing, in the listing's
\* order, then one `OK` line (that line alone when the listing is absent),
\* and the session stays Active.
C9_HelpListsThenOk ==
    (CurLineIs(HELP) /\ Settled /\ \A i \in DOMAIN attempts : attempts[i].ok)
        => /\ Len(hcalls) = 1
           /\ hcalls[1].op = "help"
           /\ LET L == Listing(hcalls[1].list)
              IN  /\ AttemptLines =
                        [i \in 1..Len(L) |-> <<"#", " ">> \o L[i]] \o << <<"O", "K">> >>
                  /\ Len(output) >= Len(L) + 1
                  /\ SubSeq(output, Len(output) - Len(L), Len(output)) = AttemptLines
           /\ StillActive

\* C9 witness: the listing ["FOO", "BAR"] gave `# FOO`, `# BAR`, `OK`.
C9_Witness ==
    /\ CurLineIs(HELP)
    /\ pc = "next"
    /\ output = <<GreetingLine, <<"#", " ", "F", "O", "O">>, <<"#", " ", "B", "A", "R">>,
                  <<"O", "K">> >>

\* The Err response with the "too large" code and no description.
TooLargeErr == RespErr(Gpg("TooLarge"), None)

\* The number of characters of the current item's trimmed line.
CurChars == Len(CurLine)

\* C10 as stated, the length of a line being its number of characters: a
\* line of more than 1000 characters after trimming is never parsed, reaches
\* no Handler operation and is answered with exactly one line, the Err with
\* the "too large" code and no description, the session staying Active; a
\* non-blank line of 1000 characters or less is parsed, and no "too large"
\* Err is written for it.
C10_LengthInCharacters ==
    (consumed # <<>> /\ Cur.kind = "Line" /\ pc # "dispatch")
        => /\ CurChars > MaxLineLen =>
                 /\ req = NoReq
                 /\ hcalls = <<>>
                 /\ pc \in {"write", "next", "done"}
                 /\ pc = "write" => attempts = <<>>
                 /\ Settled => /\ Len(attempts) = 1
                               /\ attempts[1].resp = TooLargeErr
                               /\ attempts[1].ok => StillActive
           /\ (CurChars <= MaxLineLen /\ CurLine # <<>>) =>
                 /\ req = CurRequest
                 /\ \A i \in DOMAIN attempts : attempts[i].resp # TooLargeErr

\* C10, amended: the length of a line is its length in bytes (str::len).  A
\* line longer than 1000 bytes after trimming is never parsed and reaches
\* no Handler operation; exactly one line is written for it, the Err with
\* the "too large" code and no description, and the session stays Active.
\* A non-blank line of 1000 bytes or less is parsed, and no "too large" Err
\* is written for it.
C10_LengthLimit ==
    (consumed # <<>> /\ Cur.kind = "Line" /\ pc # "dispatch")
        => /\ CurLen > MaxLineLen =>
                 /\ req = NoReq
                 /\ hcalls = <<>>
                 /\ pc \in {"write", "next", "done"}
                 /\ pc = "write" => attempts = <<>>
                 /\ Settled => /\ Len(attempts) = 1
                               /\ attempts[1].resp = TooLargeErr
                               /\ attempts[1].line = ErrLine(Gpg("TooLarge"), None)
                               /\ attempts[1].ok => StillActive
           /\ (CurLen <= MaxLineLen /\ CurLine # <<>>) =>
                 /\ req = CurRequest
                 /\ \A i \in DOMAIN attempts : attempts[i].resp # TooLargeErr

\* C10 witness: a line of exactly 1000 bytes was parsed and answered `OK`,
\* after a line of 1001 bytes was answered with the "too large" Err.
C10_Witness ==
    /\ Len(consumed) = 2
    /\ TrimmedLen[consumed[1]] = MaxLineLen + 1
    /\ CurLen = MaxLineLen
    /\ req.tag = "Nop"
    /\ pc = "next"
    /\ output = <<GreetingLine, ResponseDisplay(TooLargeErr), <<"O", "K">> >>

\* The item being processed is a read error.
CurIsReadErr == consumed # <<>> /\ Cur.kind = "ReadErr"

\* C11: a read error is answered with exactly one Err response carrying the
\* "unexpected" code and the error's description, with no Handler call; once
\* it is written the session is still Active and an item that follows is
\* read; the session ends because of it only when that write fails.
C11_ReadErrorIsReported ==
    (CurIsReadErr /\ pc # "dispatch")
        => /\ hcalls = <<>>
           /\ req = NoReq
           /\ pc \in {"write", "next", "done"}
           /\ pc = "write" =>
                 (attempts = <<>> /\ pending = RespErr(Gpg("Unexpected"), Some(Cur.text)))
           /\ Settled =>
                 /\ Len(attempts) = 1
                 /\ attempts[1].resp = RespErr(Gpg("Unexpected"), Some(Cur.text))
                 /\ attempts[1].line = ErrLine(Gpg("Unexpected"), Some(Cur.text))
                 /\ attempts[1].ok => StillActive
                 /\ (attempts[1].ok /\ input # <<>>) => ENABLED ReadNext
                 /\ ~attempts[1].ok => (pc = "done" /\ outcome = "WriteErr" /\ exit = "write")

\* C11 witness: a read error was reported, and the NOP after it was read and
\* answered.
C11_Witness ==
    /\ Len(consumed) = 2
    /\ Items[consumed[1]].kind = "ReadErr"
    /\ CurLineIs(NOP)
    /\ pc = "next"
    /\ output = <<ResponseDisplay(Greeting),
                  <<"E", "R", "R", " ", "3", "8", " ", "e", "o", "f">>,
                  <<"O", "K">> >>

\* C12: a line that is blank after trimming, and a line that parses to
\* Comment, produce no response line and no Handler call, and leave the
\* session Active.
C12_BlankAndCommentIgnored ==
    ((CurLineIs(<<>>) \/ CurParsesTo("Comment")) /\ pc # "dispatch")
        => /\ attempts = <<>>
           /\ hcalls = <<>>
           /\ StillActive
           /\ input # <<>> => ENABLED ReadNext

\* C12 witness: a blank line and then a comment were read, and only the
\* greeting has been written.
C12_Witness ==
    /\ Len(consumed) = 2
    /\ Items[consumed[1]].kind = "Line"
    /\ Items[consumed[1]].text # <<>>
    /\ TrimmedLine[consumed[1]] = <<>>
    /\ CurParsesTo("Comment")
    /\ req = Req("Comment", <<>>, Some(<<"c">>))
    /\ pc = "next"
    /\ output = <<ResponseDisplay(Greeting)>>
    /\ ~wfail

\* C13: once the loop was entered, start() is over only because the input is
\* exhausted, a write failed, QUIT was received, or Handler.handle returned
\* Ok(None).
C13_LeavesLoopByListedEvents ==
    (pc = "done" /\ exit # "unwrap")
        => exit \in {"exhausted", "write", "quit", "handler"}

\* Request::from has returned (or panicked) on the line at the codecs.
RequestParsed == crequest # NoReq

\* Response::from has returned (or panicked) on the line at the codecs.
ResponseParsed == cresponse # NoResp

\* C14: Request::from and Response::from return a value for every line.
C14_ParsingIsTotal ==
    /\ RequestParsed => crequest.tag # "Panic"
    /\ ResponseParsed => cresponse.tag # "Panic"

\* The response line `ERR <tok><suf>`.
ErrLineOf(tok, suf) == ERR \o <<" ">> \o tok \o suf

\* Suffixes that begin a description with a space, or are empty.
SpaceSuffixes == {suf \in ErrSuffixes : suf = <<>> \/ Head(suf) = " "}

\* The description a suffix spells: the text after its first space, absent
\* when there is none.
DescriptionOf(suf) ==
    IF suf = <<>> \/ Tail(suf) = <<>> THEN None ELSE Some(Tail(suf))

\* C15 as stated: an ERR line whose token is not numeric parses to Custom.
C15_NonNumericTokenIsCustom ==
    \A tok \in OtherTokens, suf \in SpaceSuffixes :
        (cline = ErrLineOf(tok, suf) /\ ResponseParsed) => cresponse.tag = "Custom"

\* C15: an ERR line whose token is not numeric parses to an Err carrying the
\* well-known "unknown errno" code and the description; an ERR line with a
\* remainder never parses to Custom, Err comes from such lines only, and its
\* error is a well-known code or a custom code.
C15_NonNumericTokenIsUnknownErrno ==
    /\ \A tok \in OtherTokens, suf \in SpaceSuffixes :
          (cline = ErrLineOf(tok, suf) /\ ResponseParsed)
              => cresponse = RespErr(Gpg("UnknownErrno"), DescriptionOf(suf))
    /\ (ResponseParsed /\ cresponse.tag # "Panic")
          => LET cp == ResponseCommandAndParameters(cline)
             IN  /\ cresponse.tag = "Err" <=> (cp.k = ERR /\ cp.p.some)
                 /\ cresponse.tag = "Err" => cresponse.e.kind \in {"Gpg", "Custom"}
                 /\ cresponse.tag # "Err" => cresponse.e = NoErr

\* C15 witness: `ERR id d e` was parsed to Err(UnknownErrno, Some("d e")).
C15_Witness ==
    /\ cline = ErrLineOf(<<"i", "d">>, <<" ", "d", " ", "e">>)
    /\ cresponse = RespErr(Gpg("UnknownErrno"), Some(<<"d", " ", "e">>))

\* The error each numeric token of the model stands for.
ExpectedError(tok) ==
    CASE tok = <<"3", "8">> -> Gpg("Unexpected")
      [] tok = <<"6", "7">> -> Gpg("TooLarge")
      [] tok = <<"1", "6", "3", "8", "2">> -> Gpg("UnknownErrno")
      [] tok = <<"1", "6", "3", "8", "3">> -> Gpg("Eof")
      [] tok = <<"3", "2", "9", "0", "9">> -> CustomCode(32909)
      [] tok = <<"3", "2", "9", "1", "0">> -> CustomCode(32910)

\* C16: `ERR <n> [description]` with n an unsigned integer parses to
\* Err(well-known code of n, description) when n is well known, and to
\* Err(CustomCode(n), description) otherwise; the description is the text
\* after the first space that follows the code, absent when there is none;
\* the bare line `ERR` parses to Custom("ERR", None).
C16_ErrDecoding ==
    /\ \A tok \in NumericTokens, suf \in SpaceSuffixes :
          (cline = ErrLineOf(tok, suf) /\ ResponseParsed)
              => cresponse = RespErr(ExpectedError(tok), DescriptionOf(suf))
    /\ (cline = ERR /\ ResponseParsed) => cresponse = RespCustom(ERR, None)

\* C16 witness: `ERR 32909 d e` was parsed to Err(CustomCode(32909), "d e").
C16_Witness ==
    /\ cline = ErrLineOf(<<"3", "2", "9", "0", "9">>, <<" ", "d", " ", "e">>)
    /\ cresponse = RespErr(CustomCode(32909), Some(<<"d", " ", "e">>))

\* The request line `OPTION <arg>`.
OptionLineOf(arg) == OPTION \o <<" ">> \o arg

\* Every line `OPTION name=value`, `OPTION name value` and `OPTION name = value`
\* of the model, with the name and the value it spells.
OptionForms ==
    UNION {{[line |-> OptionLineOf(arg), name |-> nv[1], value |-> nv[2]]
            : arg \in OptionEq(nv[1], nv[2]) \cup {nv[1] \o <<" ">> \o nv[2]}}
           : nv \in OptionNames \X OptionValues}

\* C17: `OPTION name=value`, `OPTION name value` and `OPTION name = value`
\* with any whitespace around `=` all parse to Option(name, Some(value)),
\* name and value free of surrounding whitespace.
C17_OptionFormsAgree ==
    (RequestParsed /\ Len(cline) > Len(OPTION) /\ SubSeq(cline, 1, Len(OPTION)) = OPTION)
        => \A f \in OptionForms :
              cline = f.line => crequest = Req("Option", f.name, Some(f.value))

\* C17 witness: `OPTION nm<space><tab>=<space><space>#v` was parsed to
\* Option("nm", Some("#v")).
C17_Witness ==
    /\ cline = OptionLineOf(<<"n", "m", " ", "\t", "=", " ", " ", "#", "v">>)
    /\ crequest = Req("Option", <<"n", "m">>, Some(<<"#", "v">>))

\* What follows the first space of the line at the codecs, as it was written.
RawRemainder ==
    IF SplitOnce(cline, " ").found THEN SplitOnce(cline, " ").b ELSE <<>>

\* C18: OPTION and D without an argument parse to Unknown; `OPTION name`
\* parses to Option(name, None) and `D <payload>` to Data(payload), the
\* payload verbatim; an Option has a non-empty name and a Data a non-empty
\* payload.
C18_MissingArgumentIsUnknown ==
    /\ (cline = OPTION /\ RequestParsed) => crequest = Req("Unknown", OPTION, None)
    /\ (cline = D /\ RequestParsed) => crequest = Req("Unknown", D, None)
    /\ \A n \in OptionNames :
          (cline = OptionLineOf(n) /\ RequestParsed) => crequest = Req("Option", n, None)
    /\ (RequestParsed /\ crequest.tag = "Option") => crequest.k # <<>>
    /\ (RequestParsed /\ crequest.tag = "D") => (crequest.k # <<>> /\ crequest.k = RawRemainder)

\* The text of the comment on the line at the codecs: what follows the first
\* character, trimmed, absent when nothing is left.
CommentTextOf(line) ==
    IF Trim(Tail(line)) = <<>> THEN None ELSE Some(Trim(Tail(line)))

\* C19: a line whose first character is `#` parses to Comment in both
\* codecs; the text is what follows that first character, trimmed, and is
\* absent when only whitespace follows; `##a` gives Comment(Some("#a")).
C19_FirstHashIsComment ==
    /\ (cline # <<>> /\ <<Head(cline)>> = COMMENT)
          => /\ RequestParsed => crequest = Req("Comment", <<>>, CommentTextOf(cline))
             /\ ResponseParsed => cresponse = RespComment(CommentTextOf(cline))
    /\ cline = <<"#", "#", "a">>
          => /\ RequestParsed => crequest = Req("Comment", <<>>, Some(<<"#", "a">>))
             /\ ResponseParsed => cresponse = RespComment(Some(<<"#", "a">>))
    /\ cline = <<"#", " ", "\t">>
          => /\ RequestParsed => crequest = Req("Comment", <<>>, None)
             /\ ResponseParsed => cresponse = RespComment(None)

\* C19 witness: `##a` followed by a space was parsed by both codecs to
\* Comment(Some("#a")).
C19_Witness ==
    /\ cline = <<"#", "#", "a", " ">>
    /\ crequest = Req("Comment", <<>>, Some(<<"#", "a">>))
    /\ cresponse = RespComment(Some(<<"#", "a">>))

\* The places where a text splits at its first space into two non-empty parts.
FirstSpaceSplits(p) ==
    {i \in 2..(Len(p) - 1) : p[i] = " " /\ \A j \in 1..(i - 1) : p[j] # " "}

\* The response a line with keyword kw and remainder p stands for: the pair
\* of the two parts, or Custom(kw, p).
FieldsOf(kw, tag, p) ==
    IF p.some /\ FirstSpaceSplits(p.v) # {}
    THEN LET i == CHOOSE i \in FirstSpaceSplits(p.v) : TRUE
         IN  Resp(tag, SubSeq(p.v, 1, i - 1), SubSeq(p.v, i + 1, Len(p.v)), None, NoErr)
    ELSE RespCustom(kw, p)

\* C20: an S or INQUIRE line parses to Status or Inquire exactly when its
\* remainder splits at its first space into two non-empty parts, and to
\* Custom(keyword, remainder) otherwise; in every Status and Inquire both
\* fields are non-empty and the first holds no space.
C20_StatusAndInquireNeedTwoParts ==
    (ResponseParsed /\ cresponse.tag # "Panic")
        => LET cp == ResponseCommandAndParameters(cline)
           IN  /\ cp.k = S => cresponse = FieldsOf(S, "S", cp.p)
               /\ cp.k = INQUIRE => cresponse = FieldsOf(INQUIRE, "Inquire", cp.p)
               /\ cresponse.tag = "S" => cp.k = S
               /\ cresponse.tag = "Inquire" => cp.k = INQUIRE
               /\ cresponse.tag \in {"S", "Inquire"}
                     => /\ cresponse.k # <<>>
                        /\ cresponse.v # <<>>
                        /\ \A i \in DOMAIN cresponse.k : cresponse.k[i] # " "

\* C20 witness: `S k v w` was parsed to Status("k", "v w"), the value keeping
\* its own space.
C20_Witness ==
    /\ cline = S \o <<" ", "k", " ", "v", " ", "w">>
    /\ cresponse = RespS(<<"k">>, <<"v", " ", "w">>)

\* The zero-argument keywords and their variants.
ZeroArgument == {
    [kw |-> BYE, tag |-> "Bye"], [kw |-> RESET, tag |-> "Reset"], [kw |-> END, tag |-> "End"],
    [kw |-> HELP, tag |-> "Help"], [kw |-> QUIT, tag |-> "Quit"],
    [kw |-> CANCEL, tag |-> "Cancel"], [kw |-> NOP, tag |-> "Nop"]
}

\* The line is the keyword alone, or the keyword, a space and any remainder.
BeginsWithKeyword(line, kw) ==
    \/ line = kw
    \/ Len(line) > Len(kw) /\ SubSeq(line, 1, Len(kw) + 1) = kw \o <<" ">>

\* The parsed request has been rendered.
RequestRendered == crendered # None

\* The rendered request has been parsed again.
RequestReparsed == creparsed # NoReq

\* C21: a zero-argument keyword, alone or followed by a space and any
\* remainder, parses to its variant; the variant comes from that exact
\* keyword only (a longer word or another case is Unknown), renders as the
\* bare keyword, and parses back to itself.
C21_ZeroArgumentKeywords ==
    /\ \A z \in ZeroArgument :
          /\ (RequestParsed /\ BeginsWithKeyword(cline, z.kw)) => crequest = Req(z.tag, <<>>, None)
          /\ (RequestParsed /\ crequest.tag = z.tag) => CommandAndParameters(cline).k = z.kw
          /\ (RequestRendered /\ crequest.tag = z.tag) => crendered = Some(z.kw)
          /\ (RequestReparsed /\ crequest.tag = z.tag) => creparsed = crequest
    /\ (RequestParsed /\ cline = <<"n", "o", "p">>)
          => crequest = Req("Unknown", <<"n", "o", "p">>, None)
    /\ (RequestParsed /\ cline = NOP \o <<"a">>) => crequest = Req("Unknown", NOP \o <<"a">>, None)

\* C21 witness: `QUIT a b` was parsed to Quit, rendered as `QUIT` and parsed
\* back to Quit.
C21_Witness ==
    /\ cline = QUIT \o <<" ", "a", " ", "b">>
    /\ crequest = Req("Quit", <<>>, None)
    /\ crendered = Some(QUIT)
    /\ creparsed = Req("Quit", <<>>, None)

\* Nothing but whitespace follows the first space of the line at the codecs,
\* which is no comment.
RestIsBlank ==
    /\ cline # <<>>
    /\ <<Head(cline)>> # COMMENT
    /\ Trim(RawRemainder) = <<>>

\* C22: in both codecs a line whose text after the first space is empty or
\* only whitespace parses to a value without parameters: never Some(""),
\* never an Option or a Data; `OPTION` followed by spaces is
\* Unknown("OPTION", None) and `OK` followed by spaces is Ok(None).
C22_BlankRestIsAbsent ==
    /\ (RequestParsed /\ crequest.tag # "Panic" /\ RestIsBlank)
          => (crequest.p = None /\ crequest.tag \notin {"Option", "D"})
    /\ (ResponseParsed /\ cresponse.tag # "Panic" /\ RestIsBlank) => cresponse.p = None
    /\ (RequestParsed /\ cline = OPTION \o <<" ", " ">>) => crequest = Req("Unknown", OPTION, None)
    /\ (ResponseParsed /\ cline = OK \o <<" ", " ">>) => cresponse = RespOk(None)

\* C23: a request that was parsed, rendered and parsed again is the request
\* that was parsed first.
C23_RenderInvertsParse ==
    RequestReparsed => creparsed = crequest

\* A Handler operation has been called and has not returned.
CallInProgress == pc \in {"option", "handle"}

\* A response for the current item is waiting to be written.
WriteOutstanding == pc \in {"help", "write"}

\* C24: an item is taken from the input only at the head of the loop, when
\* no Handler call is in progress and nothing is left to write for the item
\* before it, and it is the next item of the stream; a line reaches the
\* output only while no Handler call is in progress, at the end of the
\* output, for the item taken last; a Handler call is made only while none
\* is in progress.
C24_OneLineAtATime ==
    [][/\ consumed' # consumed
            => /\ pc = "next"
               /\ ~CallInProgress /\ ~WriteOutstanding
               /\ helpq = <<>>
               /\ input # <<>>
               /\ consumed' = Append(consumed, Head(input))
               /\ input' = Tail(input)
               /\ output' = output
       /\ output' # output
            => /\ ~CallInProgress
               /\ consumed' = consumed
               /\ attempts' # <<>>
               /\ output' = Append(output, attempts'[Len(attempts')].line)
       /\ (hcalls' # hcalls /\ hcalls' # <<>>)
            => /\ consumed' = consumed
               /\ hcalls' = Append(hcalls, hcalls'[Len(hcalls')])
               /\ output' = output
               /\ ~WriteOutstanding
               /\ ~CallInProgress'
      ]_vars

\* C24 witness: `OPTION a=b` was answered by the Handler with `S k v`, then
\* NOP was read and answered, and the output holds the answers in that order.
C24_Witness ==
    /\ Len(consumed) = 2
    /\ Items[consumed[1]].text = OPTION \o SP \o <<"a", "=", "b">>
    /\ CurLineIs(NOP)
    /\ pc = "next"
    /\ output = <<GreetingLine, <<"S", " ", "k", " ", "v">>, <<"O", "K">> >>

\* C25: during HELP a comment line that cannot be written ends nothing: one
\* comment per element of the listing and then the closing OK are attempted
\* whatever the comments' writes return, and the closing OK alone decides:
\* written, the session stays Active; failed, start() returns
\* Err(ServerError::Write).
C25_HelpCommentFailureSwallowed ==
    (CurLineIs(HELP) /\ pc # "dispatch")
        => /\ Len(hcalls) = 1
           /\ LET L == Listing(hcalls[1].list)
              IN  /\ pc \in {"help", "write", "next", "done"}
                  /\ pc = "help" => (Len(attempts) + Len(helpq) = Len(L) /\ exit = "none")
                  /\ pc = "write" => (Len(attempts) = Len(L) /\ exit = "none")
                  /\ Settled =>
                        /\ Len(attempts) = Len(L) + 1
                        /\ \A i \in 1..Len(L) :
                              /\ attempts[i].resp = RespComment(Some(L[i]))
                              /\ ~attempts[i].final
                        /\ attempts[Len(L) + 1].resp = RespOk(None)
                        /\ attempts[Len(L) + 1].final
                        /\ attempts[Len(L) + 1].ok => StillActive
                        /\ ~attempts[Len(L) + 1].ok
                              => (pc = "done" /\ outcome = "WriteErr" /\ exit = "write")

\* C25 witness: of the listing ["FOO", "BAR"] the first comment could not be
\* written; `# BAR` and `OK` were, and the session went on.
C25_Witness ==
    /\ CurLineIs(HELP)
    /\ pc = "next"
    /\ Len(attempts) = 3
    /\ ~attempts[1].ok
    /\ attempts[2].ok
    /\ attempts[3].ok
    /\ output = <<GreetingLine, <<"#", " ", "B", "A", "R">>, <<"O", "K">> >>
    /\ exit = "none"

\* C26: for a RESET line Handler.reset is called exactly once, before
\* anything is written for the line; one line, `OK`, is then written, and
\* the session stays Active.
C26_ResetNotifiesThenOk ==
    (CurParsesTo("Reset") /\ pc # "dispatch")
        => /\ hcalls = <<Call("reset", <<>>, None, NoRes, None)>>
           /\ pc \in {"write", "next", "done"}
           /\ pc = "write" => (attempts = <<>> /\ pending = RespOk(None))
           /\ Settled => /\ AttemptLines = << <<"O", "K">> >>
                         /\ attempts[1].ok => StillActive
                         /\ (attempts[1].ok /\ input # <<>>) => ENABLED ReadNext

\* C26 witness: RESET was read, the Handler was told, and `OK` was written.
C26_Witness ==
    /\ Len(consumed) = 1
    /\ CurLineIs(RESET)
    /\ hcalls = <<Call("reset", <<>>, None, NoRes, None)>>
    /\ pc = "next"
    /\ output = <<GreetingLine, <<"O", "K">> >>

\* The Handler operation each request variant is dispatched to.
OperationOf(tag) ==
    CASE tag = "Unknown" -> "handle"
      [] tag = "Option" -> "option"
      [] tag = "Help" -> "help"
      [] tag = "Reset" -> "reset"
      [] OTHER -> "none"

\* The variant the current item parses to; "none" for a read error, a blank
\* line and a line over the length limit, which are never parsed.
CurVariant ==
    IF Cur.kind = "Line" /\ CurLine # <<>> /\ CurLen <= MaxLineLen
    THEN RequestOf[consumed[Len(consumed)]].tag
    ELSE "none"

\* Keyword and parameters of each item's trimmed line (a table, as
\* TrimmedLine).
SplitOf == [i \in ItemIds |-> CommandAndParameters(TrimmedLine[i])]

CurSplit == SplitOf[consumed[Len(consumed)]]

\* The current item is the line `OPTION` or `D` alone, or a line whose
\* keyword is a response keyword.
KeywordForHandle ==
    /\ CurVariant = "Unknown"
    /\ \/ CurLine \in {OPTION, D}
       \/ CurSplit.k \in {OK, ERR, S, INQUIRE}

\* C27: at most one Handler operation is called for an item, the one that
\* belongs to the variant the item parses to, and none for the other
\* variants and for items that are not parsed; a line whose keyword is
\* OPTION or D without argument, or a response keyword, reaches
\* Handler.handle with its keyword and parameters.
C27_OperationFollowsVariant ==
    consumed # <<>>
        => /\ Len(hcalls) <= 1
           /\ hcalls # <<>> => hcalls[1].op = OperationOf(CurVariant)
           /\ (Settled /\ OperationOf(CurVariant) # "none") => Len(hcalls) = 1
           /\ (Settled /\ KeywordForHandle)
                 => /\ Len(hcalls) = 1
                    /\ hcalls[1].op = "handle"
                    /\ hcalls[1].k = CurSplit.k
                    /\ hcalls[1].p = CurSplit.p

\* C27 witness: `S k v`, sent as a request, reached Handler.handle as
\* ("S", Some("k v")).
C27_Witness ==
    /\ CurLineIs(S \o SP \o <<"k", " ", "v">>)
    /\ pc = "next"
    /\ Len(hcalls) = 1
    /\ hcalls[1].op = "handle"
    /\ hcalls[1].k = S
    /\ hcalls[1].p = Some(<<"k", " ", "v">>)

====
